---- MODULE Spec2Model ----
(***************************************************************************)
(* QuickPick user service (server/services/user.service.js) as a state     *)
(* machine.  Every request is a process that runs one service function;    *)
(* each await on the database or on the email sender is one step, so the   *)
(* steps of concurrent requests interleave exactly where the event loop    *)
(* can switch between them.  Around it: the request pipeline (auth          *)
(* middleware, catchAsync, errorHandler, the response formatters) and the   *)
(* client helpers uploadAndSetImage and getRedirectURL.                    *)
(***************************************************************************)
EXTENDS Integers, Sequences, FiniteSets, TLC

(***************************************************************************)
(* Bounds of the model.                                                    *)
(***************************************************************************)
MaxCalls == 3
MaxUsers == 2
MaxMs == 1
MaxHours == 1
MaxSubs == 2

Procs == {"r1", "r2"}

Emails == {"alice@x.com", "bob@x.com"}
Passwords == {"secret123", "other456"}
\* codes a caller may type, and the numbers generatedOtp() may return (the
\* two ends of its range)
Otps == {"100000", "999999"}
generatedOtp == {100000, 999999}
Salts == {"saltA"}
Statuses == {"Active", "Inactive", "Suspended"}
\* _id values a caller may send: 0 is the empty value, an id above the number
\* of stored users is unknown
IdArgs == 0 .. MaxUsers

(***************************************************************************)
(* Values.  A value that JavaScript may hold as null, as the empty string, *)
(* as an ISO date string or as a Date is a tagged record, so that the      *)
(* comparisons of the code can be evaluated on every combination.          *)
(***************************************************************************)
NullV == [k |-> "null", v |-> 0]
EmptyV == [k |-> "empty", v |-> 0]
IsoV(t) == [k |-> "iso", v |-> t]
DateV(t) == [k |-> "date", v |-> t]
NumV(n) == [k |-> "num", v |-> n]
NullOtp == "<null>"
NoToken == [kind |-> "none", id |-> 0, iat |-> 0]
NoUser == [_id |-> 0]
NoErr == [message |-> "", statusCode |-> 0, isOperational |-> FALSE, status |-> ""]
NoVal == [none |-> TRUE]
NoRes == [kind |-> "none", err |-> NoErr, val |-> NoVal]
NoArgs == [name |-> "", email |-> "", password |-> "", confirm |-> "",
           mobile |-> "", otp |-> "", id |-> 0]
NoUpdate == [f \in {} |-> ""]

Hour == 60 * 60 * 1000

(***************************************************************************)
(* errorHandler.js: AppError and createError.                              *)
(***************************************************************************)
RECURSIVE FirstDigit(_)
FirstDigit(n) == IF n < 10 THEN n ELSE FirstDigit(n \div 10)

AppError(message, statusCode, isOperational) ==
    [message |-> message,
     statusCode |-> statusCode,
     isOperational |-> isOperational,
     status |-> IF FirstDigit(statusCode) = 4 THEN "fail" ELSE "error"]

createError(message, statusCode) == AppError(message, statusCode, TRUE)

Throw(err) == [kind |-> "throw", err |-> err, val |-> NoVal]
Return(val) == [kind |-> "ok", err |-> NoErr, val |-> val]

\* the failures the service raises, by the name the specification gives them
RegisterBadRequest == createError("Please provide email, name, and password", 400)
Conflict == createError("Email already registered", 400)
LoginBadRequest == createError("Please provide email and password", 400)
NotRegistered == createError("User not registered", 400)
AccountInactive == createError("Account is not active. Please contact admin", 400)
InvalidCredentials == createError("Invalid password", 400)
CodeRequired == createError("Verification code is required", 400)
InvalidCode == createError("Invalid verification code", 400)
EmailRequired == createError("Email is required", 400)
ForgotNotFound == createError("Email not found", 400)
OtpBadRequest == createError("Email and OTP are required", 400)
OtpNotFound == createError("Email not found", 400)
Expired == createError("OTP has expired", 400)
InvalidOtp == createError("Invalid OTP", 400)
ResetBadRequest == createError("Email, new password, and confirmation are required", 400)
PasswordMismatch == createError("Passwords do not match", 400)
ResetNotFound == createError("Email not found", 400)
NotFound == createError("User not found", 404)
\* raised by the database driver on a unique-index violation: not an AppError
DuplicateKey == [message |-> "E11000 duplicate key error", statusCode |-> 0,
                 isOperational |-> FALSE, status |-> ""]
\* raised when the email sender fails
MailFailure == [message |-> "email sender failed", statusCode |-> 0,
                isOperational |-> FALSE, status |-> ""]

(***************************************************************************)
(* errorHandler.js and responseFormatter.js: what each writes to the       *)
(* response, as the status code and the JSON body.  A body field that may  *)
(* hold a boolean or an object is a tagged value.                          *)
(***************************************************************************)
BoolV(b) == [k |-> "bool", v |-> b]
ObjV(o) == [k |-> "object", v |-> o]

NodeEnvs == {"development", "production", "test"}
GenericMessage == "Something went wrong!"

\* err.stack: the message followed by the frames
Stack(err) == <<err.message, "    at <frames>">>

\* JSON.stringify(err): the own enumerable properties (message and stack are
\* not enumerable); isOperational is a property of AppError only
Json(err) ==
    IF err.isOperational
    THEN [statusCode |-> err.statusCode, isOperational |-> TRUE, status |-> err.status]
    ELSE [statusCode |-> err.statusCode, status |-> err.status]

errorHandler(err, env) ==
    LET e == [err EXCEPT !.statusCode = IF @ # 0 THEN @ ELSE 500,
                         !.status = IF @ # "" THEN @ ELSE "error"]
    IN IF env = "development"
       THEN [statusCode |-> e.statusCode,
             body |-> [status |-> e.status, error |-> ObjV(Json(e)),
                       message |-> e.message, stack |-> Stack(e),
                       success |-> BoolV(FALSE)]]
       ELSE IF e.isOperational
       THEN [statusCode |-> e.statusCode,
             body |-> [status |-> e.status, message |-> e.message,
                       error |-> BoolV(TRUE), success |-> BoolV(FALSE)]]
       ELSE [statusCode |-> 500,
             body |-> [status |-> "error", message |-> GenericMessage,
                       error |-> BoolV(TRUE), success |-> BoolV(FALSE)]]

successResponse(data, message, statusCode) ==
    [statusCode |-> statusCode,
     body |-> [success |-> BoolV(TRUE), error |-> BoolV(FALSE),
               message |-> message, data |-> data]]

\* errors = NoVal is the null default: the body gets no errors field
errorResponse(message, statusCode, errors) ==
    [statusCode |-> statusCode,
     body |-> IF errors # NoVal
              THEN [success |-> BoolV(FALSE), error |-> BoolV(TRUE),
                    message |-> message, errors |-> errors]
              ELSE [success |-> BoolV(FALSE), error |-> BoolV(TRUE),
                    message |-> message]]

\* Math.ceil(totalCount / limit) for positive limit
Ceil(a, b) == (a + b - 1) \div b

paginatedResponse(data, page, limit, totalCount, message) ==
    [statusCode |-> 200,
     body |-> [success |-> BoolV(TRUE), error |-> BoolV(FALSE),
               message |-> message, data |-> data,
               pagination |-> [page |-> page, limit |-> limit,
                               totalCount |-> totalCount,
                               totalPages |-> Ceil(totalCount, limit),
                               hasNextPage |-> page * limit < totalCount,
                               hasPrevPage |-> page > 1]]]

\* createdResponse that answers 200
createdResponseOk(data, message) == successResponse(data, message, 200)

createdResponse(data, message) == successResponse(data, message, 201)

(***************************************************************************)
(* bcryptjs: a hash carries its salt; compare re-hashes with that salt.    *)
(***************************************************************************)
\* a hash function that returns its input
HashPlain(password, salt) == [alg |-> "plain", salt |-> "", pw |-> password]

Hash(password, salt) == [alg |-> "bcrypt", salt |-> salt, pw |-> password]
Compare(password, stored) == stored = Hash(password, stored.salt)

(***************************************************************************)
(* Tokens and the one-time code.                                           *)
(***************************************************************************)
generatedAccessToken(id, t) == [kind |-> "access", id |-> id, iat |-> t]
SignRefreshToken(id, t) == [kind |-> "refresh", id |-> id, iat |-> t]

(***************************************************************************)
(* The user collection.                                                    *)
(***************************************************************************)
DefaultRole == "USER"
DefaultStatus == "Active"

NewUser(id, name, email, hashPassword) ==
    [_id |-> id,
     name |-> name,
     email |-> email,
     password |-> hashPassword,
     mobile |-> "",
     role |-> DefaultRole,
     status |-> DefaultStatus,
     verify_email |-> FALSE,
     refresh_token |-> NoToken,
     forgot_password_otp |-> NullOtp,
     forgot_password_expiry |-> NullV,
     last_login_date |-> NullV]

VARIABLES users, now, mails, procs, last, calls, http, ui

vars == <<users, now, mails, procs, last, calls, http, ui>>

Ids == 1 .. Len(users)

Min(S) == CHOOSE x \in S : \A y \in S : x <= y

\* UserModel.findOne({ email })
FindByEmail(email) ==
    LET hit == {i \in Ids : users[i].email = email}
    IN IF hit = {} THEN NoUser ELSE users[Min(hit)]

\* UserModel.findOne({ _id }) / findById
FindById(id) == IF id \in Ids THEN users[id] ELSE NoUser

\* a collection without the unique index on email
NoUniqueIndex(id, email) == FALSE

\* the unique index on email: TRUE when writing `email` to document `id`
\* (0 for a new document) would duplicate another document's email
UniqueIndexRejects(id, email) ==
    \E i \in Ids : i # id /\ users[i].email = email

\* String(n) of a non-negative integer
Digit(d) ==
    CASE d = 0 -> "0" [] d = 1 -> "1" [] d = 2 -> "2" [] d = 3 -> "3" [] d = 4 -> "4"
      [] d = 5 -> "5" [] d = 6 -> "6" [] d = 7 -> "7" [] d = 8 -> "8" [] d = 9 -> "9"

RECURSIVE ToStr(_)
ToStr(n) == IF n < 10 THEN Digit(n) ELSE ToStr(n \div 10) \o Digit(n % 10)

\* The schema's cast of a value written to a path.  forgot_password_expiry
\* is a nullable timestamp: a date string is stored as the Date of that
\* instant, the empty string as null.  forgot_password_otp is a nullable
\* string: a number is stored as its decimal string.
Cast(f, v) ==
    CASE f = "forgot_password_expiry" ->
            (CASE v.k = "iso" -> DateV(v.v)
               [] v.k = "empty" -> NullV
               [] OTHER -> v)
      [] f = "forgot_password_otp" ->
            (CASE v.k = "num" -> ToStr(v.v)
               [] v.k = "empty" -> "")
      [] OTHER -> v

\* $set of the fields of `upd` on one document
SetFields(u, upd) ==
    [f \in DOMAIN u |-> IF f \in DOMAIN upd THEN Cast(f, upd[f]) ELSE u[f]]

\* UserModel.updateOne({ _id }, upd) / findByIdAndUpdate(_id, upd): the
\* collection afterwards (a missing _id matches nothing)
Updated(id, upd) ==
    IF id \in Ids THEN [users EXCEPT ![id] = SetFields(users[id], upd)] ELSE users

(***************************************************************************)
(* A request in flight: the function it runs, its arguments, the place it  *)
(* has reached and the locals that live across an await.  `wrote` and      *)
(* `mailed` tell whether a step of the call has changed the collection or  *)
(* sent an email so far.  `last` is the call that completed most recently, *)
(* with its outcome; `n` numbers the completed calls.                      *)
(***************************************************************************)
Idle == [pc |-> "idle", op |-> "", args |-> NoArgs, user |-> NoUser,
         upd |-> NoUpdate, out |-> NoVal, wrote |-> FALSE, mailed |-> FALSE]
NoCall == [n |-> 0, op |-> "", args |-> NoArgs, user |-> NoUser, res |-> NoRes,
           wrote |-> FALSE, mailed |-> FALSE]

\* The HTTP request being served: the configured NODE_ENV, the route, the
\* accessToken cookie ("" when absent), the Authorization header as its
\* characters, req.userId (0 until attached), how many times the route's
\* handler ran, how many service calls it made, the arguments next was called
\* with and the responses sent, in order.
NoRequest == [pc |-> "idle", env |-> "production", route |-> "", cookie |-> "",
              header |-> <<>>, userId |-> 0, ran |-> 0, service |-> 0,
              nexts |-> <<>>, sent |-> <<>>]

\* The client component that uploads an image: where uploadAndSetImage
\* is, its file and field arguments, the component state setData updates,
\* and the calls of uploadImage and of setData made by the current call.
NoUpload == [pc |-> "idle", file |-> "", field |-> "", data |-> [k \in {} |-> ""],
             uploads |-> 0, sets |-> <<>>]

Free(p) == procs[p].pc = "idle"

\* the call passes its argument checks and reaches its first await
Start(p, op, args, pc) ==
    /\ Free(p)
    /\ calls < MaxCalls
    /\ calls' = calls + 1
    /\ procs' = [procs EXCEPT ![p] = [Idle EXCEPT !.pc = pc, !.op = op, !.args = args]]
    /\ UNCHANGED <<users, now, mails, last, http, ui>>

\* the call throws before its first await
Reject(p, op, args, err) ==
    /\ Free(p)
    /\ calls < MaxCalls
    /\ calls' = calls + 1
    /\ last' = [NoCall EXCEPT !.n = last.n + 1, !.op = op, !.args = args,
                               !.res = Throw(err)]
    /\ UNCHANGED <<users, now, mails, procs, http, ui>>

\* the call moves on to the place `pc`, keeping `user`, `upd` and `out`
Goto(p, pc, user, upd, out) ==
    /\ procs' = [procs EXCEPT ![p].pc = pc, ![p].user = user, ![p].upd = upd,
                   ![p].out = out,
                   ![p].wrote = procs[p].wrote \/ users' # users,
                   ![p].mailed = procs[p].mailed \/ mails' # mails]
    /\ UNCHANGED <<now, last, calls, http, ui>>

\* the call ends: its outcome becomes the most recent one
Done(p, user, res) ==
    /\ last' = [n |-> last.n + 1, op |-> procs[p].op, args |-> procs[p].args,
                user |-> user, res |-> res,
                wrote |-> procs[p].wrote \/ users' # users,
                mailed |-> procs[p].mailed \/ mails' # mails]
    /\ procs' = [procs EXCEPT ![p] = Idle]
    /\ UNCHANGED <<now, calls, http, ui>>

Init ==
    /\ users = <<>>
    /\ now = 0
    /\ mails = 0
    /\ procs = [p \in Procs |-> Idle]
    /\ last = NoCall
    /\ calls = 0
    /\ http = NoRequest
    /\ ui = NoUpload

(***************************************************************************)
(* The payloads a caller sends: every combination of the registered        *)
(* values, and each required field missing in turn ("" is the empty or     *)
(* absent value, 0 the empty id).                                          *)
(***************************************************************************)
RegisterInputs ==
    {[NoArgs EXCEPT !.name = "Alice", !.email = e, !.password = w] :
        e \in Emails, w \in Passwords}
    \cup {[NoArgs EXCEPT !.email = "alice@x.com", !.password = "secret123"],
          [NoArgs EXCEPT !.name = "Alice", !.password = "secret123"],
          [NoArgs EXCEPT !.name = "Alice", !.email = "alice@x.com"]}

LoginInputs ==
    {[NoArgs EXCEPT !.email = e, !.password = w] : e \in Emails, w \in Passwords}
    \cup {[NoArgs EXCEPT !.password = "secret123"],
          [NoArgs EXCEPT !.email = "alice@x.com"]}

OtpInputs ==
    {[NoArgs EXCEPT !.email = e, !.otp = o] : e \in Emails, o \in Otps}
    \cup {[NoArgs EXCEPT !.otp = "100000"],
          [NoArgs EXCEPT !.email = "alice@x.com"]}

ResetInputs ==
    {[NoArgs EXCEPT !.email = e, !.password = w, !.confirm = c] :
        e \in Emails, w \in Passwords, c \in Passwords}
    \cup {[NoArgs EXCEPT !.password = "secret123", !.confirm = "secret123"],
          [NoArgs EXCEPT !.email = "alice@x.com", !.confirm = "secret123"],
          [NoArgs EXCEPT !.email = "alice@x.com", !.password = "secret123"]}

\* the sparse payloads: each field alone, on every id; an email on every
\* stored id; nothing; everything
UpdateInputs ==
    {[NoArgs EXCEPT !.id = i, !.name = "Bob"] : i \in IdArgs}
    \cup {[NoArgs EXCEPT !.id = i, !.email = e] : i \in 1 .. MaxUsers, e \in Emails}
    \cup {[NoArgs EXCEPT !.id = 1, !.mobile = "555"],
          [NoArgs EXCEPT !.id = 1, !.password = "other456"],
          [NoArgs EXCEPT !.id = 1],
          [NoArgs EXCEPT !.id = 1, !.name = "Bob", !.email = "bob@x.com",
                         !.mobile = "555", !.password = "other456"]}

(***************************************************************************)
(* sendEmail: the sender delivers, or fails and the await throws.          *)
(***************************************************************************)
Delivered == mails' = mails + 1
SendFailed == mails' = mails

(***************************************************************************)
(* registerUser                                                            *)
(***************************************************************************)
Registering == {p \in Procs : procs[p].pc \in {"reg_find", "reg_save"}}

RegisterCall(p, a) ==
    IF a.name = "" \/ a.email = "" \/ a.password = ""
    THEN Reject(p, "registerUser", a, RegisterBadRequest)
    ELSE /\ Len(users) + Cardinality(Registering) < MaxUsers
         /\ Start(p, "registerUser", a, "reg_find")

\* registerUser without the existence check of lines 29-32
RegisterFindNoLookup(p) ==
    /\ procs[p].pc = "reg_find"
    /\ UNCHANGED <<users, mails>>
    /\ \E salt \in Salts :
          Goto(p, "reg_save", NoUser,
               [password |-> Hash(procs[p].args.password, salt)], NoVal)

RegisterFind(p) ==
    /\ procs[p].pc = "reg_find"
    /\ UNCHANGED <<users, mails>>
    /\ LET existingUser == FindByEmail(procs[p].args.email)
       IN IF existingUser # NoUser
          THEN Done(p, existingUser, Throw(Conflict))
          ELSE \E salt \in Salts :
                  Goto(p, "reg_save", NoUser,
                       [password |-> Hash(procs[p].args.password, salt)], NoVal)

RegisterSave(p) ==
    /\ procs[p].pc = "reg_save"
    /\ UNCHANGED mails
    /\ IF UniqueIndexRejects(0, procs[p].args.email)
       THEN /\ UNCHANGED users
            /\ Done(p, NoUser, Throw(DuplicateKey))
       ELSE LET savedUser == NewUser(Len(users) + 1, procs[p].args.name,
                                     procs[p].args.email, procs[p].upd["password"])
            IN /\ users' = Append(users, savedUser)
               /\ Goto(p, "reg_mail", savedUser, NoUpdate, NoVal)

\* what the caller of registerUser receives
RegisterResult(savedUser) == savedUser

\* registerUser that removes the saved record when the email fails
RegisterMailRollback(p) ==
    /\ procs[p].pc = "reg_mail"
    /\ \/ /\ Delivered
          /\ UNCHANGED users
          /\ Done(p, procs[p].user, Return(RegisterResult(procs[p].user)))
       \/ /\ SendFailed
          /\ users' = SubSeq(users, 1, Len(users) - 1)
          /\ Done(p, procs[p].user, Throw(MailFailure))

RegisterMail(p) ==
    /\ procs[p].pc = "reg_mail"
    /\ UNCHANGED users
    /\ \/ /\ Delivered
          /\ Done(p, procs[p].user, Return(RegisterResult(procs[p].user)))
       \/ /\ SendFailed
          /\ Done(p, procs[p].user, Throw(MailFailure))

(***************************************************************************)
(* loginUser                                                               *)
(***************************************************************************)
LoginCall(p, a) ==
    IF a.email = "" \/ a.password = ""
    THEN Reject(p, "loginUser", a, LoginBadRequest)
    ELSE Start(p, "loginUser", a, "login_find")

\* loginUser comparing the password before it looks at the status
LoginCheckPasswordFirst(user, password) ==
    IF user = NoUser THEN NotRegistered
    ELSE IF ~Compare(password, user.password) THEN InvalidCredentials
    ELSE IF user.status # "Active" THEN AccountInactive
    ELSE NoErr

\* the checks of loginUser after the lookup, in the order of the code
LoginCheck(user, password) ==
    IF user = NoUser THEN NotRegistered
    ELSE IF user.status # "Active" THEN AccountInactive
    ELSE IF ~Compare(password, user.password) THEN InvalidCredentials
    ELSE NoErr

LoginFind(p) ==
    /\ procs[p].pc = "login_find"
    /\ UNCHANGED <<users, mails>>
    /\ LET user == FindByEmail(procs[p].args.email)
           err == LoginCheck(user, procs[p].args.password)
       IN IF err # NoErr
          THEN Done(p, user, Throw(err))
          ELSE Goto(p, "login_token", user, NoUpdate,
                    [accessToken |-> generatedAccessToken(user._id, now)])

\* genertedRefreshToken(userId): signs the token and stores it on the user
\* document; on its return loginUser issues the last-login update, with
\* new Date() taken at that moment
LoginToken(p) ==
    /\ procs[p].pc = "login_token"
    /\ UNCHANGED mails
    /\ LET refreshToken == SignRefreshToken(procs[p].user._id, now)
       IN /\ users' = Updated(procs[p].user._id, [refresh_token |-> refreshToken])
          /\ Goto(p, "login_last", procs[p].user, [last_login_date |-> DateV(now)],
                  [accessToken |-> procs[p].out.accessToken,
                   refreshToken |-> refreshToken])

\* loginUser returning the document it found
LoginResultWholeUser(out, user) ==
    [accessToken |-> out.accessToken,
     refreshToken |-> out.refreshToken,
     user |-> user]

LoginResult(out, user) ==
    [accessToken |-> out.accessToken,
     refreshToken |-> out.refreshToken,
     user |-> [_id |-> user._id, name |-> user.name, email |-> user.email,
               role |-> user.role]]

\* loginUser without the update of lines 94-96
LoginLastNoUpdate(p) ==
    /\ procs[p].pc = "login_last"
    /\ UNCHANGED <<users, mails>>
    /\ Done(p, procs[p].user, Return(LoginResult(procs[p].out, procs[p].user)))

LoginLast(p) ==
    /\ procs[p].pc = "login_last"
    /\ UNCHANGED mails
    /\ users' = Updated(procs[p].user._id, procs[p].upd)
    /\ Done(p, procs[p].user, Return(LoginResult(procs[p].out, procs[p].user)))

(***************************************************************************)
(* verifyEmail                                                             *)
(***************************************************************************)
VerifyEmailCall(p, code) ==
    IF code = 0
    THEN Reject(p, "verifyEmail", [NoArgs EXCEPT !.id = code], CodeRequired)
    ELSE Start(p, "verifyEmail", [NoArgs EXCEPT !.id = code], "ve_find")

\* verifyEmail refusing a user who is verified already
VerifyEmailFindOnce(p) ==
    /\ procs[p].pc = "ve_find"
    /\ UNCHANGED <<users, mails>>
    /\ LET user == FindById(procs[p].args.id)
       IN IF user = NoUser \/ user.verify_email
          THEN Done(p, user, Throw(InvalidCode))
          ELSE Goto(p, "ve_update", user, NoUpdate, NoVal)

VerifyEmailFind(p) ==
    /\ procs[p].pc = "ve_find"
    /\ UNCHANGED <<users, mails>>
    /\ LET user == FindById(procs[p].args.id)
       IN IF user = NoUser
          THEN Done(p, user, Throw(InvalidCode))
          ELSE Goto(p, "ve_update", user, NoUpdate, NoVal)

VerifyEmailUpdate(p) ==
    /\ procs[p].pc = "ve_update"
    /\ UNCHANGED mails
    /\ users' = Updated(procs[p].args.id, [verify_email |-> TRUE])
    /\ Done(p, procs[p].user, Return([value |-> TRUE]))

(***************************************************************************)
(* forgotPassword                                                          *)
(***************************************************************************)
ForgotCall(p, email) ==
    IF email = ""
    THEN Reject(p, "forgotPassword", [NoArgs EXCEPT !.email = email], EmailRequired)
    ELSE Start(p, "forgotPassword", [NoArgs EXCEPT !.email = email], "fp_find")

\* an update of forgotPassword that carries the code only
ForgotUpdateCodeOnly(otp, t) == [forgot_password_otp |-> NumV(otp)]

\* the two fields forgotPassword writes, from the code it generated and the
\* time it read the clock
ForgotUpdate(otp, t) ==
    [forgot_password_otp |-> NumV(otp), forgot_password_expiry |-> IsoV(t + Hour)]

ForgotFind(p) ==
    /\ procs[p].pc = "fp_find"
    /\ UNCHANGED <<users, mails>>
    /\ LET user == FindByEmail(procs[p].args.email)
       IN IF user = NoUser
          THEN Done(p, user, Throw(ForgotNotFound))
          ELSE \E otp \in generatedOtp :
                  Goto(p, "fp_update", user, ForgotUpdate(otp, now), NoVal)

\* forgotPassword writing the code and leaving the expiry
ForgotWriteCodeOnly(p) ==
    /\ procs[p].pc = "fp_update"
    /\ UNCHANGED mails
    /\ users' = Updated(procs[p].user._id,
                        [forgot_password_otp |-> procs[p].upd["forgot_password_otp"]])
    /\ Goto(p, "fp_mail", procs[p].user, procs[p].upd, NoVal)

ForgotWrite(p) ==
    /\ procs[p].pc = "fp_update"
    /\ UNCHANGED mails
    /\ users' = Updated(procs[p].user._id, procs[p].upd)
    /\ Goto(p, "fp_mail", procs[p].user, procs[p].upd, NoVal)

ForgotMail(p) ==
    /\ procs[p].pc = "fp_mail"
    /\ UNCHANGED users
    /\ \/ /\ Delivered
          /\ Done(p, procs[p].user, Return([value |-> TRUE]))
       \/ /\ SendFailed
          /\ Done(p, procs[p].user, Throw(MailFailure))

(***************************************************************************)
(* verifyForgotPasswordOtp                                                 *)
(***************************************************************************)
OtpCall(p, a) ==
    IF a.email = "" \/ a.otp = ""
    THEN Reject(p, "verifyForgotPasswordOtp", a, OtpBadRequest)
    ELSE Start(p, "verifyForgotPasswordOtp", a, "vo_find")

\* user.forgot_password_expiry < currentTime, where currentTime is an ISO
\* string.  Two strings compare as strings: ISO strings order as their times
\* do and the empty string is below each of them.  Any other left side is
\* compared as a number with the number the ISO string converts to, which
\* is NaN, and the comparison is false.
ExpiryBefore(expiry, t) ==
    CASE expiry.k = "iso" -> expiry.v < t
      [] expiry.k = "empty" -> TRUE
      [] OTHER -> FALSE

\* the checks of verifyForgotPasswordOtp after the lookup, in the order of
\* the code
OtpCheck(user, otp, t) ==
    IF user = NoUser THEN OtpNotFound
    ELSE IF ExpiryBefore(user.forgot_password_expiry, t) THEN Expired
    ELSE IF otp # user.forgot_password_otp THEN InvalidOtp
    ELSE NoErr

\* a clearing update that leaves the expiry
OtpClearCodeOnly == [forgot_password_otp |-> EmptyV]

OtpClear == [forgot_password_otp |-> EmptyV, forgot_password_expiry |-> EmptyV]

\* verifyForgotPasswordOtp clearing the fields before it checks the code
OtpFindClearsFirst(p) ==
    /\ procs[p].pc = "vo_find"
    /\ UNCHANGED mails
    /\ LET user == FindByEmail(procs[p].args.email)
           err == OtpCheck(user, procs[p].args.otp, now)
       IN /\ users' = Updated(user._id, OtpClear)
          /\ IF err # NoErr
             THEN Done(p, user, Throw(err))
             ELSE Goto(p, "vo_clear", user, OtpClear, NoVal)

OtpFind(p) ==
    /\ procs[p].pc = "vo_find"
    /\ UNCHANGED <<users, mails>>
    /\ LET user == FindByEmail(procs[p].args.email)
           err == OtpCheck(user, procs[p].args.otp, now)
       IN IF err # NoErr
          THEN Done(p, user, Throw(err))
          ELSE Goto(p, "vo_clear", user, OtpClear, NoVal)

OtpWrite(p) ==
    /\ procs[p].pc = "vo_clear"
    /\ UNCHANGED mails
    /\ users' = Updated(procs[p].user._id, procs[p].upd)
    /\ Done(p, procs[p].user, Return([value |-> TRUE]))

(***************************************************************************)
(* resetPassword                                                           *)
(***************************************************************************)
ResetCall(p, a) ==
    IF a.email = "" \/ a.password = "" \/ a.confirm = ""
    THEN Reject(p, "resetPassword", a, ResetBadRequest)
    ELSE IF a.password # a.confirm
    THEN Reject(p, "resetPassword", a, PasswordMismatch)
    ELSE Start(p, "resetPassword", a, "rp_find")

\* resetPassword that goes on only when a verification has cleared the code
ResetFindAfterOtp(p) ==
    /\ procs[p].pc = "rp_find"
    /\ UNCHANGED <<users, mails>>
    /\ LET user == FindByEmail(procs[p].args.email)
       IN IF user = NoUser
          THEN Done(p, user, Throw(ResetNotFound))
          ELSE IF user.forgot_password_otp # ""
          THEN Done(p, user, Throw(InvalidOtp))
          ELSE \E salt \in Salts :
                  Goto(p, "rp_update", user,
                       [password |-> Hash(procs[p].args.password, salt)], NoVal)

ResetFind(p) ==
    /\ procs[p].pc = "rp_find"
    /\ UNCHANGED <<users, mails>>
    /\ LET user == FindByEmail(procs[p].args.email)
       IN IF user = NoUser
          THEN Done(p, user, Throw(ResetNotFound))
          ELSE \E salt \in Salts :
                  Goto(p, "rp_update", user,
                       [password |-> Hash(procs[p].args.password, salt)], NoVal)

\* resetPassword without the update of lines 232-234
ResetWriteNothing(p) ==
    /\ procs[p].pc = "rp_update"
    /\ UNCHANGED <<users, mails>>
    /\ Done(p, procs[p].user, Return([value |-> TRUE]))

\* resetPassword that also drops the stored refresh token
ResetWriteSignsOut(p) ==
    /\ procs[p].pc = "rp_update"
    /\ UNCHANGED mails
    /\ users' = Updated(procs[p].user._id,
                        [f \in DOMAIN procs[p].upd \cup {"refresh_token"} |->
                            IF f = "refresh_token" THEN NoToken ELSE procs[p].upd[f]])
    /\ Done(p, procs[p].user, Return([value |-> TRUE]))

ResetWrite(p) ==
    /\ procs[p].pc = "rp_update"
    /\ UNCHANGED mails
    /\ users' = Updated(procs[p].user._id, procs[p].upd)
    /\ Done(p, procs[p].user, Return([value |-> TRUE]))

(***************************************************************************)
(* updateUserDetails                                                       *)
(***************************************************************************)
\* updateData: the provided (truthy) fields, the password hashed
\* updateData filled from all four fields, empty ones included
UpdateDataAll(a, salt) ==
    [f \in {"name", "email", "mobile", "password"} |->
        IF f = "password" THEN Hash(a.password, salt) ELSE a[f]]

UpdateData(a, salt) ==
    [f \in {g \in {"name", "email", "mobile", "password"} : a[g] # ""} |->
        IF f = "password" THEN Hash(a.password, salt) ELSE a[f]]

UpdateCall(p, a) ==
    /\ Free(p)
    /\ calls < MaxCalls
    /\ calls' = calls + 1
    /\ \E salt \in Salts :
         procs' = [procs EXCEPT ![p] = [Idle EXCEPT !.pc = "up_update",
                     !.op = "updateUserDetails", !.args = a, !.upd = UpdateData(a, salt)]]
    /\ UNCHANGED <<users, now, mails, last, http, ui>>

\* the result object of updateOne
UpdateResult(id) == [matchedCount |-> IF id \in Ids THEN 1 ELSE 0]

UpdateWrite(p) ==
    /\ procs[p].pc = "up_update"
    /\ UNCHANGED mails
    /\ LET id == procs[p].args.id
           upd == procs[p].upd
       IN IF id \in Ids /\ "email" \in DOMAIN upd /\ UniqueIndexRejects(id, upd["email"])
          THEN /\ UNCHANGED users
               /\ Done(p, FindById(id), Throw(DuplicateKey))
          ELSE /\ users' = Updated(id, upd)
               /\ Done(p, FindById(id), Return(UpdateResult(id)))

(***************************************************************************)
(* getUserById                                                             *)
(***************************************************************************)
\* findOne without the select
SelectAll(user) == user

\* .select('-password -refresh_token')
Select(user) == [f \in DOMAIN user \ {"password", "refresh_token"} |-> user[f]]

GetCall(p, id) ==
    /\ id \in IdArgs
    /\ Start(p, "getUserById", [NoArgs EXCEPT !.id = id], "gu_find")

GetFind(p) ==
    /\ procs[p].pc = "gu_find"
    /\ UNCHANGED <<users, mails>>
    /\ LET found == FindById(procs[p].args.id)
       IN IF found = NoUser
          THEN Done(p, found, Throw(NotFound))
          ELSE Done(p, found, Return(Select(found)))

(***************************************************************************)
(* The request pipeline: the auth middleware on protected routes, the      *)
(* controller wrapped by catchAsync, the global error handler.             *)
(***************************************************************************)
\* the token strings a client may present, and what each was signed from:
\* access tokens of user 1 and of an id no record has, a refresh token
\* (signed with the other secret); any other string has no valid signature
Payload ==
    [t \in {"jwt.access.1", "jwt.access.2", "jwt.refresh.1"} |->
        CASE t = "jwt.access.1" -> generatedAccessToken(1, 0)
          [] t = "jwt.access.2" -> generatedAccessToken(MaxUsers, 0)
          [] t = "jwt.refresh.1" -> SignRefreshToken(1, 0)]
Tokens == DOMAIN Payload \cup {"jwt.forged"}
AccessTokenLife == Hour

\* jwt.verify(token, SECRET_KEY_ACCESS_TOKEN) returns the payload
Verifies(token, t) ==
    /\ token \in DOMAIN Payload
    /\ Payload[token].kind = "access"
    /\ t < Payload[token].iat + AccessTokenLife

\* header.split(" "): the header is its words and the spaces between them
RECURSIVE Split(_)
Split(h) ==
    IF h = <<>> THEN <<"">>
    ELSE IF Head(h) = " " THEN <<"">> \o Split(Tail(h))
    ELSE <<Head(h)>> \o Tail(Split(Tail(h)))

\* a[i] of a JavaScript array, "" where it is undefined
At(a, i) == IF i \in 1 .. Len(a) THEN a[i] ELSE ""

\* the token read from the header alone
TokenOfHeaderOnly(cookie, header) == At(Split(header), 2)

\* req.cookies.accessToken || req.headers.authorization?.split(" ")[1]
TokenOf(cookie, header) ==
    IF cookie # "" THEN cookie ELSE At(Split(header), 2)

Unauthorized ==
    [statusCode |-> 401,
     body |-> [message |-> "Unauthorized", error |-> BoolV(TRUE),
               success |-> BoolV(FALSE)]]

Cookies == {""} \cup Tokens
Headers ==
    {<<>>} \cup {<<"Bearer", " ", t>> : t \in Tokens}
    \cup {<<"jwt.access.1">>, <<"Bearer", " ", " ", "jwt.access.1">>}
Routes == {"profile", "register"}
Protected == {"profile"}

\* a request arrives once the previous one has been answered
Request(route, cookie, header) ==
    /\ http.pc \in {"idle", "done"}
    /\ calls < MaxCalls
    /\ calls' = calls + 1
    /\ http' = [NoRequest EXCEPT !.env = http.env, !.route = route,
                  !.cookie = cookie, !.header = header,
                  !.pc = IF route \in Protected THEN "auth" ELSE "handler"]
    /\ UNCHANGED <<users, now, mails, procs, last, ui>>

Auth ==
    /\ http.pc = "auth"
    /\ LET token == TokenOf(http.cookie, http.header)
       IN IF Verifies(token, now)
          THEN http' = [http EXCEPT !.userId = Payload[token].id, !.pc = "handler"]
          ELSE http' = [http EXCEPT !.sent = Append(@, Unauthorized), !.pc = "done"]
    /\ UNCHANGED <<users, now, mails, procs, last, calls, ui>>

\* catchAsync that drops the rejection
catchAsyncSwallow(outcome) == <<>>

\* Promise.resolve(fn(req, res, next)).catch(next): the calls of next
catchAsync(outcome) ==
    IF outcome.kind = "throw" THEN <<outcome.err>> ELSE <<>>

\* the controller ran to `outcome`: it answers when the service returned,
\* and its rejection goes to next
Controller(outcome, response) ==
    http' = [http EXCEPT !.ran = @ + 1, !.service = @ + 1,
               !.nexts = @ \o catchAsync(outcome),
               !.sent = IF outcome.kind = "ok" THEN Append(@, response) ELSE @,
               !.pc = IF catchAsync(outcome) # <<>> THEN "error"
                      ELSE IF outcome.kind = "ok" THEN "done" ELSE "hung"]

\* getProfile: getUserById(req.userId), then successResponse(res, user)
GetProfile ==
    /\ http.pc = "handler"
    /\ http.route = "profile"
    /\ LET found == FindById(http.userId)
           outcome == IF found = NoUser THEN Throw(NotFound)
                      ELSE Return(Select(found))
       IN Controller(outcome, successResponse(outcome.val, "Success", 200))
    /\ UNCHANGED <<users, now, mails, procs, last, calls, ui>>

\* what registerUser may end with
RegisterOutcomes ==
    {Throw(e) : e \in {RegisterBadRequest, Conflict, DuplicateKey, MailFailure}}
    \cup {Return(NewUser(1, "Alice", "alice@x.com", Hash("secret123", salt))) :
            salt \in Salts}

\* registerUserController: registerUser(body), then createdResponse
RegisterController(outcome) ==
    /\ http.pc = "handler"
    /\ http.route = "register"
    /\ outcome \in RegisterOutcomes
    /\ Controller(outcome,
                  createdResponse(outcome.val, "User registered successfully"))
    /\ UNCHANGED <<users, now, mails, procs, last, calls, ui>>

\* app.use(errorHandler): next(err) reaches the global error handler
ErrorHandler ==
    /\ http.pc = "error"
    /\ http' = [http EXCEPT !.sent = Append(@, errorHandler(http.nexts[Len(http.nexts)],
                                                           http.env)),
                            !.pc = "done"]
    /\ UNCHANGED <<users, now, mails, procs, last, calls, ui>>

(***************************************************************************)
(* client/src/utils/imageUploadHelper.js: uploadAndSetImage.               *)
(***************************************************************************)
\* e.target.files, the optional field argument (<<>> when omitted), and what
\* uploadImage may settle with
FileLists == {<<>>, <<"photo.png">>}
FieldArgs == {<<>>, <<"icon">>}
UploadFailure == [message |-> "Network Error", statusCode |-> 0,
                  isOperational |-> FALSE, status |-> ""]
UrlMissing == [message |-> "Image URL not found in the upload response",
               statusCode |-> 0, isOperational |-> FALSE, status |-> ""]
Responses ==
    {[data |-> [data |-> [url |-> "a.png"]]],
     [data |-> [url |-> "b.png"]],
     [data |-> [data |-> [url |-> "a.png"], url |-> "b.png"]],
     [data |-> [data |-> [url |-> ""], url |-> "b.png"]],
     [data |-> [message |-> "uploaded"]],
     [status |-> 200]}
UploadOutcomes == {Throw(UploadFailure)} \cup {Return(r) : r \in Responses}
InitialData ==
    {[k \in {} |-> ""], [name |-> "Fruit"], [name |-> "Fruit", image |-> "old.png"]}

\* response.data?.data?.url and response.data?.url, "" where undefined
InnerUrl(response) ==
    IF /\ "data" \in DOMAIN response
       /\ "data" \in DOMAIN response.data
       /\ "url" \in DOMAIN response.data.data
    THEN response.data.data.url ELSE ""
OuterUrl(response) ==
    IF "data" \in DOMAIN response /\ "url" \in DOMAIN response.data
    THEN response.data.url ELSE ""

\* response.data?.data?.url || response.data?.url || ""
ImageUrl(response) ==
    IF InnerUrl(response) # "" THEN InnerUrl(response) ELSE OuterUrl(response)

\* an updater that returns only the image key
StateUpdaterReplace(field, imageUrl, prev) == [k \in {field} |-> imageUrl]

\* (prev) => ({ ...prev, [field]: imageUrl })
StateUpdater(field, imageUrl, prev) ==
    [k \in DOMAIN prev \cup {field} |-> IF k = field THEN imageUrl ELSE prev[k]]

Uploaded(args, res) ==
    /\ last' = [NoCall EXCEPT !.n = last.n + 1, !.op = "uploadAndSetImage",
                               !.args = args, !.res = res]
    /\ UNCHANGED <<users, now, mails, procs, http>>

\* the call up to its await: without a file it returns at once
UploadCall(files, fieldArg) ==
    /\ ui.pc = "idle"
    /\ calls < MaxCalls
    /\ calls' = calls + 1
    /\ LET file == At(files, 1)
           field == IF fieldArg = <<>> THEN "image" ELSE fieldArg[1]
       IN IF file = ""
          THEN /\ ui' = [ui EXCEPT !.file = file, !.field = field,
                                   !.uploads = 0, !.sets = <<>>]
               /\ Uploaded([files |-> files, field |-> fieldArg,
                            outcome |-> NoRes], Return(NoVal))
          ELSE /\ ui' = [ui EXCEPT !.pc = "upload", !.file = file, !.field = field,
                                   !.uploads = 1, !.sets = <<>>]
               /\ UNCHANGED <<users, now, mails, procs, last, http>>

\* uploadImage settles
UploadSettle(outcome) ==
    /\ ui.pc = "upload"
    /\ outcome \in UploadOutcomes
    /\ LET args == [files |-> <<ui.file>>,
                    field |-> IF ui.field = "image" THEN <<>> ELSE <<ui.field>>,
                    outcome |-> outcome]
       IN IF outcome.kind = "throw"
          THEN /\ ui' = [ui EXCEPT !.pc = "idle"]
               /\ Uploaded(args, Throw(outcome.err))
          ELSE IF ImageUrl(outcome.val) = ""
          THEN /\ ui' = [ui EXCEPT !.pc = "idle"]
               /\ Uploaded(args, Throw(UrlMissing))
          ELSE /\ ui' = [ui EXCEPT !.pc = "idle",
                           !.sets = Append(@, [field |-> ui.field,
                                               imageUrl |-> ImageUrl(outcome.val)]),
                           !.data = StateUpdater(ui.field, ImageUrl(outcome.val), @)]
               /\ Uploaded(args, Return(NoVal))
    /\ UNCHANGED calls

(***************************************************************************)
(* client/src/utils/urlHelper.js: getRedirectURL.  A string is the         *)
(* sequence of its characters.                                             *)
(***************************************************************************)
UndefinedText == <<"u", "n", "d", "e", "f", "i", "n", "e", "d">>
CategoryIds == {<<"1">>, <<"2">>, <<"9">>}
CategoryNames == {<<>>, <<"F", "r", "u", "i", "t", "s">>, <<"F", "r", "e", "s", "h", " ", " ", "F", "o", "o", "d">>}
SubCategories ==
    {[name |-> <<"C", "i", "t", "r", "u", "s">>, _id |-> <<"s", "1">>,
      category |-> <<[_id |-> <<"1">>]>>],
     [name |-> <<"R", "o", "o", "t", " ", "V", "e", "g">>, _id |-> <<"s", "2">>,
      category |-> <<[_id |-> <<"2">>], [_id |-> <<"1">>]>>],
     [name |-> <<"L", "e", "a", "f", "y">>, _id |-> <<"s", "3">>, category |-> <<>>]}
SubCategoryLists ==
    UNION {[1 .. n -> SubCategories] : n \in 0 .. MaxSubs}

\* toLowerCase on the letters that occur
ToLowerCase(c) ==
    CASE c = "F" -> "f" [] c = "C" -> "c" [] c = "R" -> "r"
      [] c = "V" -> "v" [] c = "L" -> "l" [] OTHER -> c

\* str.toLowerCase().replace(/\s+/g, "-")
RECURSIVE Slug(_)
Slug(str) ==
    IF str = <<>> THEN <<>>
    ELSE IF Head(str) = " "
    THEN IF Len(str) > 1 /\ str[2] = " " THEN Slug(Tail(str))
         ELSE <<"-">> \o Slug(Tail(str))
    ELSE <<ToLowerCase(Head(str))>> \o Slug(Tail(str))

\* valideURLConvert as the test of getRedirectURL defines it
valideURLConvert(str) == IF str = <<>> THEN UndefinedText ELSE Slug(str)

\* x || "undefined"
OrUndefined(x) == IF x = <<>> THEN UndefinedText ELSE x

\* sub.category.some((c) => c._id == id)
HasCategory(sub, id) == \E j \in 1 .. Len(sub.category) : sub.category[j]._id = id

\* getRedirectURL that takes the last matching entry
getRedirectURLLast(id, name, subCategoryData) ==
    LET found == {i \in 1 .. Len(subCategoryData) : HasCategory(subCategoryData[i], id)}
        last_i == CHOOSE i \in found : \A j \in found : j <= i
    IN <<"/">> \o valideURLConvert(name) \o <<"-">> \o id \o <<"/">>
       \o (IF found = {} THEN UndefinedText \o <<"-">> \o UndefinedText
           ELSE valideURLConvert(subCategoryData[last_i].name) \o <<"-">>
                \o subCategoryData[last_i]._id)

getRedirectURL(id, name, subCategoryData) ==
    LET found == {i \in 1 .. Len(subCategoryData) : HasCategory(subCategoryData[i], id)}
        \* subCategoryData.find(...): the first match, or undefined
        subcategory == IF found = {} THEN [name |-> <<>>, _id |-> <<>>]
                       ELSE subCategoryData[Min(found)]
    IN <<"/">> \o valideURLConvert(name) \o <<"-">> \o id \o <<"/">>
       \o valideURLConvert(OrUndefined(subcategory.name)) \o <<"-">>
       \o OrUndefined(subcategory._id)

GetRedirectURL(id, name, subCategoryData) ==
    /\ calls < MaxCalls
    /\ calls' = calls + 1
    /\ last' = [NoCall EXCEPT !.n = last.n + 1, !.op = "getRedirectURL",
                  !.args = [id |-> id, name |-> name,
                            subCategoryData |-> subCategoryData],
                  !.res = Return(getRedirectURL(id, name, subCategoryData))]
    /\ UNCHANGED <<users, now, mails, procs, http, ui>>

(***************************************************************************)
(* The environment: an administrator changes an account's status, and the  *)
(* clock advances by a millisecond or by an hour.                          *)
(***************************************************************************)
AdminSetStatus(id, status) ==
    /\ id \in Ids
    /\ users[id].status # status
    /\ calls < MaxCalls
    /\ calls' = calls + 1
    /\ users' = Updated(id, [status |-> status])
    /\ UNCHANGED <<now, mails, procs, last, http, ui>>

Tick ==
    /\ \/ (now % Hour) < MaxMs /\ now' = now + 1
       \/ now < MaxHours * Hour /\ now' = now + Hour
    /\ UNCHANGED <<users, mails, procs, last, calls, http, ui>>

\* the clock advances by whole hours
TickHour ==
    /\ now < MaxHours * Hour
    /\ now' = now + Hour
    /\ UNCHANGED <<users, mails, procs, last, calls, http, ui>>

(***************************************************************************)
(* Spec: every operation, one request at a time.  The clock is read but    *)
(* stands still: it advances in SpecLogin and SpecOtp.                     *)
(***************************************************************************)
Client == "r1"

Next ==
    \/ \E a \in RegisterInputs : RegisterCall(Client, a)
    \/ RegisterFind(Client)
    \/ RegisterSave(Client)
    \/ RegisterMail(Client)
    \/ \E a \in LoginInputs : LoginCall(Client, a)
    \/ LoginFind(Client)
    \/ LoginToken(Client)
    \/ LoginLast(Client)
    \/ \E code \in IdArgs : VerifyEmailCall(Client, code)
    \/ VerifyEmailFind(Client)
    \/ VerifyEmailUpdate(Client)
    \/ \E email \in {""} \cup Emails : ForgotCall(Client, email)
    \/ ForgotFind(Client)
    \/ ForgotWrite(Client)
    \/ ForgotMail(Client)
    \/ \E a \in OtpInputs : OtpCall(Client, a)
    \/ OtpFind(Client)
    \/ OtpWrite(Client)
    \/ \E a \in ResetInputs : ResetCall(Client, a)
    \/ ResetFind(Client)
    \/ ResetWrite(Client)
    \/ \E a \in UpdateInputs : UpdateCall(Client, a)
    \/ UpdateWrite(Client)
    \/ \E id \in IdArgs : GetCall(Client, id)
    \/ GetFind(Client)
    \/ \E id \in 1 .. MaxUsers, status \in Statuses : AdminSetStatus(id, status)

Spec == Init /\ [][Next]_vars

(***************************************************************************)
(* SpecStore: registerUser and updateUserDetails, two requests in flight   *)
(* whose steps interleave.                                                 *)
(***************************************************************************)
NextStore ==
    \/ \E p \in Procs, a \in RegisterInputs : RegisterCall(p, a)
    \/ \E p \in Procs : RegisterFind(p)
    \/ \E p \in Procs : RegisterSave(p)
    \/ \E p \in Procs : RegisterMail(p)
    \/ \E p \in Procs, a \in UpdateInputs : UpdateCall(p, a)
    \/ \E p \in Procs : UpdateWrite(p)

SpecStore == Init /\ [][NextStore]_vars

(***************************************************************************)
(* SpecSignup: registerUser, verifyEmail and loginUser, one request at a   *)
(* time.  No step of it changes the name, email, password, role or status  *)
(* of a stored record, so a record shows what it was registered with.      *)
(***************************************************************************)
NextSignup ==
    \/ \E a \in RegisterInputs : RegisterCall(Client, a)
    \/ RegisterFind(Client)
    \/ RegisterSave(Client)
    \/ RegisterMail(Client)
    \/ \E code \in IdArgs : VerifyEmailCall(Client, code)
    \/ VerifyEmailFind(Client)
    \/ VerifyEmailUpdate(Client)
    \/ \E a \in LoginInputs : LoginCall(Client, a)
    \/ LoginFind(Client)
    \/ LoginToken(Client)
    \/ LoginLast(Client)

SpecSignup == Init /\ [][NextSignup]_vars

(***************************************************************************)
(* SpecLogin: registerUser and loginUser, one request at a time, with an   *)
(* administrator who changes the status of accounts, and the clock.        *)
(***************************************************************************)
NextLogin ==
    \/ \E a \in RegisterInputs : RegisterCall(Client, a)
    \/ RegisterFind(Client)
    \/ RegisterSave(Client)
    \/ RegisterMail(Client)
    \/ \E a \in LoginInputs : LoginCall(Client, a)
    \/ LoginFind(Client)
    \/ LoginToken(Client)
    \/ LoginLast(Client)
    \/ \E id \in 1 .. MaxUsers, status \in Statuses : AdminSetStatus(id, status)
    \/ Tick

SpecLogin == Init /\ [][NextLogin]_vars

(***************************************************************************)
(* SpecOtp: forgotPassword and verifyForgotPasswordOtp against a           *)
(* collection that holds one registered account, one request at a time,    *)
(* with the clock.                                                         *)
(***************************************************************************)
InitRegistered ==
    /\ users = <<NewUser(1, "Alice", "alice@x.com", Hash("secret123", "saltA"))>>
    /\ now = 0
    /\ mails = 0
    /\ procs = [p \in Procs |-> Idle]
    /\ last = NoCall
    /\ calls = 0
    /\ http = NoRequest
    /\ ui = NoUpload

NextOtp ==
    \/ \E email \in {""} \cup Emails : ForgotCall(Client, email)
    \/ ForgotFind(Client)
    \/ ForgotWrite(Client)
    \/ ForgotMail(Client)
    \/ \E a \in OtpInputs : OtpCall(Client, a)
    \/ OtpFind(Client)
    \/ OtpWrite(Client)
    \/ Tick

SpecOtp == InitRegistered /\ [][NextOtp]_vars

(***************************************************************************)
(* SpecOtpRace: forgotPassword and verifyForgotPasswordOtp against a       *)
(* collection that holds one registered account, two requests in flight    *)
(* whose steps interleave, with the clock.  Both requests are for that      *)
(* account.                                                                *)
(***************************************************************************)
NextOtpRace ==
    \/ \E p \in Procs : ForgotCall(p, "alice@x.com")
    \/ \E p \in Procs : ForgotFind(p)
    \/ \E p \in Procs : ForgotWrite(p)
    \/ \E p \in Procs : ForgotMail(p)
    \/ \E p \in Procs, a \in {b \in OtpInputs : b.email = "alice@x.com"} : OtpCall(p, a)
    \/ \E p \in Procs : OtpFind(p)
    \/ \E p \in Procs : OtpWrite(p)
    \/ Tick

SpecOtpRace == InitRegistered /\ [][NextOtpRace]_vars

(***************************************************************************)
(* SpecForgotRace: two forgotPassword requests for the registered account  *)
(* whose steps interleave, with the clock advancing by hours, and          *)
(* verifyForgotPasswordOtp requests of one client.                         *)
(***************************************************************************)
NextForgotRace ==
    \/ \E p \in Procs : ForgotCall(p, "alice@x.com")
    \/ \E p \in Procs : ForgotFind(p)
    \/ \E p \in Procs : ForgotWrite(p)
    \/ \E p \in Procs : ForgotMail(p)
    \/ \E o \in Otps : OtpCall(Client, [NoArgs EXCEPT !.email = "alice@x.com", !.otp = o])
    \/ OtpFind(Client)
    \/ OtpWrite(Client)
    \/ TickHour

SpecForgotRace == InitRegistered /\ [][NextForgotRace]_vars

(***************************************************************************)
(* SpecRecoveryRace: forgotPassword, verifyForgotPasswordOtp,              *)
(* resetPassword and updateUserDetails against a collection that holds     *)
(* one registered account, two requests in flight whose steps interleave.  *)
(***************************************************************************)
NextRecoveryRace ==
    \/ \E p \in Procs, email \in {""} \cup Emails : ForgotCall(p, email)
    \/ \E p \in Procs : ForgotFind(p)
    \/ \E p \in Procs : ForgotWrite(p)
    \/ \E p \in Procs : ForgotMail(p)
    \/ \E p \in Procs, a \in OtpInputs : OtpCall(p, a)
    \/ \E p \in Procs : OtpFind(p)
    \/ \E p \in Procs : OtpWrite(p)
    \/ \E p \in Procs, a \in ResetInputs : ResetCall(p, a)
    \/ \E p \in Procs : ResetFind(p)
    \/ \E p \in Procs : ResetWrite(p)
    \/ \E p \in Procs, a \in UpdateInputs : UpdateCall(p, a)
    \/ \E p \in Procs : UpdateWrite(p)

SpecRecoveryRace == InitRegistered /\ [][NextRecoveryRace]_vars

(***************************************************************************)
(* SpecRecovery: forgotPassword, verifyForgotPasswordOtp, resetPassword    *)
(* and loginUser against a collection that holds one registered account,   *)
(* one request at a time.                                                  *)
(***************************************************************************)
NextRecovery ==
    \/ \E email \in {""} \cup Emails : ForgotCall(Client, email)
    \/ ForgotFind(Client)
    \/ ForgotWrite(Client)
    \/ ForgotMail(Client)
    \/ \E a \in OtpInputs : OtpCall(Client, a)
    \/ OtpFind(Client)
    \/ OtpWrite(Client)
    \/ \E a \in ResetInputs : ResetCall(Client, a)
    \/ ResetFind(Client)
    \/ ResetWrite(Client)
    \/ \E a \in LoginInputs : LoginCall(Client, a)
    \/ LoginFind(Client)
    \/ LoginToken(Client)
    \/ LoginLast(Client)

SpecRecovery == InitRegistered /\ [][NextRecovery]_vars

(***************************************************************************)
(* SpecHttp: requests through the pipeline, one at a time, against a       *)
(* collection that holds one registered account, under each NODE_ENV,      *)
(* with the clock advancing by hours.                                      *)
(***************************************************************************)
InitHttp ==
    /\ users = <<NewUser(1, "Alice", "alice@x.com", Hash("secret123", "saltA"))>>
    /\ now = 0
    /\ mails = 0
    /\ procs = [p \in Procs |-> Idle]
    /\ last = NoCall
    /\ calls = 0
    /\ \E env \in NodeEnvs : http = [NoRequest EXCEPT !.env = env]
    /\ ui = NoUpload

NextHttp ==
    \/ \E route \in Routes, cookie \in Cookies, header \in Headers :
          Request(route, cookie, header)
    \/ Auth
    \/ GetProfile
    \/ \E outcome \in RegisterOutcomes : RegisterController(outcome)
    \/ ErrorHandler
    \/ TickHour

SpecHttp == InitHttp /\ [][NextHttp]_vars

\* SpecHttp with the event loop running every callback that is due: a step
\* of the pipeline that stays enabled is eventually taken
SpecHttpLive ==
    /\ InitHttp
    /\ [][NextHttp]_vars
    /\ WF_vars(Auth)
    /\ WF_vars(GetProfile)
    /\ WF_vars(\E outcome \in RegisterOutcomes : RegisterController(outcome))
    /\ WF_vars(ErrorHandler)

(***************************************************************************)
(* SpecFormat: the response formatters and the error handler applied to    *)
(* the values a caller may pass them.  `last` holds the call and the       *)
(* response it wrote.                                                      *)
(***************************************************************************)
Data == {NullV, ObjV([id |-> 1]), ObjV([id |-> 2])}
Messages == {"Success", "User registered successfully"}
StatusCodes == {200, 400, 500}
Pages == 1 .. 2
Counts == 0 .. 3
HandledErrors == {NotFound, Conflict, DuplicateKey}

Formatted(op, args, response) ==
    /\ calls < MaxCalls
    /\ calls' = calls + 1
    /\ last' = [NoCall EXCEPT !.n = last.n + 1, !.op = op, !.args = args,
                               !.res = Return(response)]
    /\ UNCHANGED <<users, now, mails, procs, http, ui>>

FormatSuccess(data, message, statusCode) ==
    /\ statusCode \in StatusCodes
    /\ Formatted("successResponse",
              [data |-> data, message |-> message, statusCode |-> statusCode],
              successResponse(data, message, statusCode))

FormatCreated(data, message) ==
    /\ message \in Messages
    /\ Formatted("createdResponse", [data |-> data, message |-> message],
              createdResponse(data, message))

FormatError(message, statusCode, errors) ==
    /\ statusCode \in StatusCodes
    /\ Formatted("errorResponse",
              [message |-> message, statusCode |-> statusCode, errors |-> errors],
              errorResponse(message, statusCode, errors))

FormatPaginated(data, page, limit, totalCount, message) ==
    /\ limit >= 1
    /\ Formatted("paginatedResponse",
              [data |-> data, page |-> page, limit |-> limit,
               totalCount |-> totalCount, message |-> message],
              paginatedResponse(data, page, limit, totalCount, message))

HandleError(err, env) ==
    /\ env \in NodeEnvs
    /\ Formatted("errorHandler", [err |-> err, env |-> env], errorHandler(err, env))

NextFormat ==
    \/ \E data \in Data, message \in Messages, statusCode \in StatusCodes :
          FormatSuccess(data, message, statusCode)
    \/ \E data \in Data, message \in Messages : FormatCreated(data, message)
    \/ \E message \in Messages, statusCode \in StatusCodes,
          errors \in {NoVal, ObjV([id |-> 1])} :
          FormatError(message, statusCode, errors)
    \/ \E data \in Data, page \in Pages, limit \in Pages, totalCount \in Counts,
          message \in Messages :
          FormatPaginated(data, page, limit, totalCount, message)
    \/ \E err \in HandledErrors, env \in NodeEnvs : HandleError(err, env)

SpecFormat == Init /\ [][NextFormat]_vars

(***************************************************************************)
(* SpecUpload: uploadAndSetImage called by a component whose state holds   *)
(* other keys, one call at a time.                                         *)
(***************************************************************************)
InitUpload ==
    /\ users = <<>>
    /\ now = 0
    /\ mails = 0
    /\ procs = [p \in Procs |-> Idle]
    /\ last = NoCall
    /\ calls = 0
    /\ http = NoRequest
    /\ \E data \in InitialData : ui = [NoUpload EXCEPT !.data = data]

NextUpload ==
    \/ \E files \in FileLists, fieldArg \in FieldArgs : UploadCall(files, fieldArg)
    \/ \E outcome \in UploadOutcomes : UploadSettle(outcome)

SpecUpload == InitUpload /\ [][NextUpload]_vars

(***************************************************************************)
(* SpecUrl: getRedirectURL applied to category ids, names and              *)
(* subcategory lists.                                                      *)
(***************************************************************************)
NextUrl ==
    \E id \in CategoryIds, name \in CategoryNames,
       subCategoryData \in SubCategoryLists :
       GetRedirectURL(id, name, subCategoryData)

SpecUrl == Init /\ [][NextUrl]_vars

(***************************************************************************)
(* Vocabulary of the properties.                                           *)
(***************************************************************************)
\* the stored records that hold `email`
Held(email) == {i \in Ids : users[i].email = email}

\* the request of Client takes this step
Steps == procs'[Client] # procs[Client]

\* the request of process p takes this step
StepsOf(p) == procs'[p] # procs[p]

\* a call completes in this step
Ends == last'.n # last.n

Secret == {"password", "refresh_token"}

(***************************************************************************)
(* C1: when registerUser looks up an email that a stored record already    *)
(* holds, the call ends with 'Email already registered', the collection    *)
(* is unchanged by the call and holds exactly one record for that email.   *)
(***************************************************************************)
C1_SecondRegisterConflicts ==
    [][(/\ procs[Client].pc = "reg_find"
        /\ Held(procs[Client].args.email) # {}
        /\ Steps)
       => /\ Ends
          /\ last'.op = "registerUser"
          /\ last'.args = procs[Client].args
          /\ last'.res = Throw(Conflict)
          /\ ~last'.wrote
          /\ users' = users
          /\ Cardinality(Held(procs[Client].args.email)) = 1]_vars

\* the second of two calls was a registerUser of the email the first stored
C1_Witness ==
    /\ calls = 2
    /\ last.n = 2
    /\ last.op = "registerUser"
    /\ last.res = Throw(Conflict)
    /\ Len(users) = 1
    /\ users[1].email = last.args.email

(***************************************************************************)
(* C2: in every state reached by interleaved registerUser and              *)
(* updateUserDetails calls, no two stored records hold the same email.     *)
(***************************************************************************)
C2_EmailUnique ==
    \A i \in Ids : \A j \in Ids : users[i].email = users[j].email => i = j

\* two registrations of one email both passed the lookup; the save of the
\* second was refused by the unique index
C2_Witness ==
    /\ last.op = "registerUser"
    /\ last.res = Throw(DuplicateKey)
    /\ Cardinality(Held(last.args.email)) = 1

(***************************************************************************)
(* C3: the value a successful registerUser returns to its caller has no    *)
(* password field and no refresh_token field.                              *)
(***************************************************************************)
C3_RegisterResultRedacted ==
    (last.op = "registerUser" /\ last.res.kind = "ok")
        => DOMAIN last.res.val \cap Secret = {}

(***************************************************************************)
(* C4: getUserById ends with 'User not found' (404) when no record has the *)
(* id; otherwise it returns the record of that id without its password and *)
(* refresh_token fields, and with every other field.                       *)
(***************************************************************************)
C4_GetUserById ==
    [][(procs[Client].pc = "gu_find" /\ Steps)
       => /\ Ends
          /\ last'.op = "getUserById"
          /\ LET id == procs[Client].args.id
             IN IF id \notin Ids
                THEN /\ last'.res = Throw(NotFound)
                     /\ NotFound.statusCode = 404
                ELSE /\ last'.res.kind = "ok"
                     /\ DOMAIN last'.res.val = DOMAIN users[id] \ Secret
                     /\ \A f \in DOMAIN last'.res.val : last'.res.val[f] = users[id][f]]_vars

\* the record returned had a stored refresh token (its owner had logged in)
C4_Witness ==
    /\ last.op = "getUserById"
    /\ last.res.kind = "ok"
    /\ last.args.id \in Ids
    /\ users[last.args.id].refresh_token # NoToken
    /\ "refresh_token" \notin DOMAIN last.res.val

(***************************************************************************)
(* C5: a call of registerUser, loginUser, verifyEmail, forgotPassword,     *)
(* verifyForgotPasswordOtp or resetPassword that ends on one of its        *)
(* validation checks has changed no stored record and sent no email, in    *)
(* the step that ends it and in every earlier step of the call.            *)
(***************************************************************************)
ValidationFailures ==
    {RegisterBadRequest, Conflict, LoginBadRequest, NotRegistered, AccountInactive,
     InvalidCredentials, CodeRequired, InvalidCode, EmailRequired, ForgotNotFound,
     OtpBadRequest, OtpNotFound, Expired, InvalidOtp, ResetBadRequest,
     PasswordMismatch, ResetNotFound}

C5_FailFast ==
    [][(Ends /\ last'.res.kind = "throw" /\ last'.res.err \in ValidationFailures)
       => /\ users' = users
          /\ mails' = mails
          /\ ~last'.wrote
          /\ ~last'.mailed]_vars

\* a wrong code was refused and the stored OTP and expiry are still there
C5_Witness ==
    /\ last.op = "verifyForgotPasswordOtp"
    /\ last.res = Throw(InvalidOtp)
    /\ ~last.wrote
    /\ \E i \in Held(last.args.email) :
          /\ users[i].forgot_password_otp \in Otps
          /\ users[i].forgot_password_otp # last.args.otp
          /\ users[i].forgot_password_expiry.k = "date"

(***************************************************************************)
(* C6: loginUser ends on the first check that fails, in the order missing  *)
(* field, unknown email, status other than Active, password mismatch, and  *)
(* passes on to issue tokens only when none fails.  A failed login returns *)
(* no value and stores nothing.                                            *)
(***************************************************************************)
C6_LoginOutcome ==
    [][/\ (Ends /\ last'.op = "loginUser"
              /\ (last'.args.email = "" \/ last'.args.password = ""))
          => last'.res = Throw(LoginBadRequest)
       /\ (procs[Client].pc = "login_find" /\ Steps)
          => LET a == procs[Client].args
                 found == Held(a.email)
             IN /\ a.email # "" /\ a.password # ""
                /\ IF found = {}
                   THEN Ends /\ last'.res = Throw(NotRegistered)
                   ELSE \A i \in found :
                          IF users[i].status # "Active"
                          THEN Ends /\ last'.res = Throw(AccountInactive)
                          ELSE IF users[i].password.pw # a.password
                          THEN Ends /\ last'.res = Throw(InvalidCredentials)
                          ELSE ~Ends /\ procs'[Client].pc = "login_token"
       /\ (Ends /\ last'.op = "loginUser" /\ last'.res.kind = "throw")
          => /\ last'.res.val = NoVal
             /\ ~last'.wrote
             /\ users' = users]_vars

\* an account that is not Active, and a wrong password for it
C6_Witness ==
    /\ last.op = "loginUser"
    /\ last.res = Throw(AccountInactive)
    /\ \E i \in Held(last.args.email) :
          /\ users[i].status # "Active"
          /\ users[i].password.pw # last.args.password

(***************************************************************************)
(* C7: when a loginUser succeeds, the record holds the refresh token the   *)
(* call returns, whatever it held before, and a last-login date taken      *)
(* during the call.                                                        *)
(***************************************************************************)
C7_LoginStoresToken ==
    [][(Ends /\ last'.op = "loginUser" /\ last'.res.kind = "ok")
       => LET id == last'.res.val.user._id
          IN /\ id \in Ids
             /\ users'[id].refresh_token = last'.res.val.refreshToken
             /\ users'[id].refresh_token.kind = "refresh"
             /\ users'[id].last_login_date.k = "date"
             /\ users'[id].last_login_date.v >= last'.res.val.accessToken.iat
             /\ users'[id].last_login_date.v <= now]_vars

\* the second login of an account: the lookup found the token of the first,
\* the record now holds the token of the second
C7_Witness ==
    /\ last.op = "loginUser"
    /\ last.res.kind = "ok"
    /\ last.user.refresh_token # NoToken
    /\ last.user.refresh_token # last.res.val.refreshToken
    /\ users[last.user._id].refresh_token = last.res.val.refreshToken

(***************************************************************************)
(* C8: once an email has been registered and verifyEmail has been called   *)
(* with the id of its record, loginUser with the registered email and      *)
(* password succeeds and returns an access token, a refresh token and a    *)
(* user made of exactly _id, name, email and role, with the registered     *)
(* name and email and the role USER.                                       *)
(***************************************************************************)
C8_SignupScenario ==
    \A i \in Ids :
        (/\ last.op = "loginUser"
         /\ last.args.email = users[i].email
         /\ last.args.password = users[i].password.pw
         /\ users[i].verify_email)
        => /\ last.res.kind = "ok"
           /\ last.res.val.accessToken.kind = "access"
           /\ last.res.val.accessToken.id = i
           /\ last.res.val.refreshToken.kind = "refresh"
           /\ last.res.val.refreshToken.id = i
           /\ last.res.val.user = [_id |-> i, name |-> users[i].name,
                                   email |-> users[i].email, role |-> "USER"]

\* register("Alice", "alice@x.com", "secret123"), verifyEmail(1),
\* login("alice@x.com", "secret123"): the three calls of the run
C8_Witness ==
    /\ calls = 3
    /\ last.n = 3
    /\ last.op = "loginUser"
    /\ last.args.email = "alice@x.com"
    /\ last.args.password = "secret123"
    /\ last.res.kind = "ok"
    /\ Len(users) = 1
    /\ users[1].name = "Alice"
    /\ users[1].verify_email

(***************************************************************************)
(* C9: verifyForgotPasswordOtp with the stored code, not after the stored  *)
(* expiry, succeeds and clears the code and the expiry; the same call      *)
(* made again right after it ends with 'Invalid OTP'.                      *)
(***************************************************************************)
C9_OtpRoundTrip ==
    [][/\ (procs[Client].pc = "vo_find" /\ Steps)
          => \A i \in Held(procs[Client].args.email) :
                (/\ users[i].forgot_password_otp = procs[Client].args.otp
                 /\ users[i].forgot_password_expiry.k = "date"
                 /\ users[i].forgot_password_expiry.v >= now)
                => ~Ends /\ procs'[Client].pc = "vo_clear"
       /\ (procs[Client].pc = "vo_clear" /\ Steps)
          => /\ Ends
             /\ last'.res.kind = "ok"
             /\ \A i \in Held(procs[Client].args.email) :
                   /\ users'[i].forgot_password_otp \notin Otps
                   /\ users'[i].forgot_password_expiry.k \in {"null", "empty"}
       /\ (/\ procs[Client].pc = "vo_find" /\ Steps
           /\ last.op = "verifyForgotPasswordOtp"
           /\ last.res.kind = "ok"
           /\ procs[Client].args = last.args)
          => Ends /\ last'.res = Throw(InvalidOtp)]_vars

\* forgotPassword, a verification with its code, and the same verification
\* again: the three calls of the run
C9_Witness ==
    /\ calls = 3
    /\ last.n = 3
    /\ last.op = "verifyForgotPasswordOtp"
    /\ last.args.otp \in Otps
    /\ last.res = Throw(InvalidOtp)
    /\ mails = 1
    /\ \E i \in Held(last.args.email) :
          /\ users[i].forgot_password_otp = ""
          /\ users[i].forgot_password_expiry = NullV

(***************************************************************************)
(* C10: forgotPassword stores the time it read the clock plus one hour as  *)
(* the expiry; verifyForgotPasswordOtp at a time after the stored expiry   *)
(* ends with 'OTP has expired' though the code is the stored one, and      *)
(* leaves the record as it is.                                             *)
(***************************************************************************)
C10_OtpExpiry ==
    [][/\ (procs[Client].pc = "fp_find" /\ Steps /\ ~Ends)
          => procs'[Client].upd["forgot_password_expiry"] = IsoV(now + 3600000)
       /\ (procs[Client].pc = "fp_update" /\ Steps)
          => \A i \in Held(procs[Client].args.email) :
                /\ users'[i].forgot_password_expiry.k \in {"iso", "date"}
                /\ users'[i].forgot_password_expiry.v
                      = procs[Client].upd["forgot_password_expiry"].v
       /\ (procs[Client].pc = "vo_find" /\ Steps)
          => \A i \in Held(procs[Client].args.email) :
                (/\ users[i].forgot_password_expiry.k \in {"iso", "date"}
                 /\ users[i].forgot_password_expiry.v < now
                 /\ users[i].forgot_password_otp = procs[Client].args.otp)
                => Ends /\ last'.res = Throw(Expired) /\ users' = users]_vars

(***************************************************************************)
(* C11: no two verifyForgotPasswordOtp calls succeed on the same stored    *)
(* code: a verification never succeeds on the record, with its pending     *)
(* code and expiry, on which the verification completed before it has      *)
(* succeeded.                                                              *)
(***************************************************************************)
C11_OtpSingleUse ==
    [][~(/\ Ends
         /\ last'.op = "verifyForgotPasswordOtp"
         /\ last'.res.kind = "ok"
         /\ last.op = "verifyForgotPasswordOtp"
         /\ last.res.kind = "ok"
         /\ last'.user = last.user
         /\ last.user.forgot_password_otp \in Otps)]_vars

(***************************************************************************)
(* C12: every write of forgotPassword stores the code and the expiry of    *)
(* the call that makes it, so after two concurrent calls both stored       *)
(* fields are those of the call that wrote last; a verification with a     *)
(* code other than the stored one, such as the code of the call that       *)
(* wrote first, ends with 'Invalid OTP' and changes nothing.               *)
(***************************************************************************)
C12_ForgotLastWriteWins ==
    [][\A p \in Procs :
        /\ (procs[p].pc = "fp_update" /\ StepsOf(p))
           => \A i \in Held(procs[p].args.email) :
                 /\ users'[i].forgot_password_otp
                       = ToStr(procs[p].upd["forgot_password_otp"].v)
                 /\ users'[i].forgot_password_expiry.k = "date"
                 /\ users'[i].forgot_password_expiry.v
                       = procs[p].upd["forgot_password_expiry"].v
        /\ (procs[p].pc = "vo_find" /\ StepsOf(p))
           => \A i \in Held(procs[p].args.email) :
                 users[i].forgot_password_otp # procs[p].args.otp
                 => /\ Ends
                    /\ last'.res = Throw(InvalidOtp)
                    /\ users' = users]_vars

\* two calls have both written, with different codes and different
\* expiries; the record holds the code and the expiry of one of them
C12_Witness ==
    /\ \A p \in Procs : procs[p].pc = "fp_mail"
    /\ procs["r1"].args = procs["r2"].args
    /\ procs["r1"].upd["forgot_password_otp"] # procs["r2"].upd["forgot_password_otp"]
    /\ procs["r1"].upd["forgot_password_expiry"] # procs["r2"].upd["forgot_password_expiry"]
    /\ \E p \in Procs : \A i \in Held(procs[p].args.email) :
          /\ users[i].forgot_password_otp = ToStr(procs[p].upd["forgot_password_otp"].v)
          /\ users[i].forgot_password_expiry.v = procs[p].upd["forgot_password_expiry"].v

(***************************************************************************)
(* C13: in every record the forgot-password code and its expiry are both   *)
(* present or both absent (null or empty), whatever forgotPassword,        *)
(* verifyForgotPasswordOtp, resetPassword and updateUserDetails calls      *)
(* have run or are running.                                                *)
(***************************************************************************)
OtpPresent(u) == u.forgot_password_otp \notin {NullOtp, ""}
ExpiryPresent(u) == u.forgot_password_expiry.k \in {"date", "iso"}

C13_OtpAndExpiryTogether ==
    \A i \in Ids : OtpPresent(users[i]) <=> ExpiryPresent(users[i])

\* a verification has cleared the pair that a forgotPassword had stored,
\* while another request is in flight
C13_Witness ==
    /\ last.op = "verifyForgotPasswordOtp"
    /\ last.res.kind = "ok"
    /\ last.wrote
    /\ OtpPresent(last.user)
    /\ \E p \in Procs : procs[p].op \in {"resetPassword", "updateUserDetails"}
    /\ \A i \in Held(last.args.email) :
          ~OtpPresent(users[i]) /\ ~ExpiryPresent(users[i])

(***************************************************************************)
(* C14: the password field of every record is a salted bcrypt hash, and    *)
(* it changes only in a step of registerUser, resetPassword or             *)
(* updateUserDetails that was given a password, to a hash of that          *)
(* password.                                                               *)
(***************************************************************************)
C14_PasswordHashed ==
    [][\A i \in 1 .. Len(users') :
        /\ users'[i].password.alg = "bcrypt"
        /\ users'[i].password.salt \in Salts
        /\ (i \notin Ids \/ users'[i].password # users[i].password)
           => /\ procs[Client].op
                    \in {"registerUser", "resetPassword", "updateUserDetails"}
              /\ procs[Client].args.password # ""
              /\ users'[i].password.pw = procs[Client].args.password]_vars

\* a resetPassword has replaced the hash of the registered password
C14_Witness ==
    /\ last.op = "resetPassword"
    /\ last.res.kind = "ok"
    /\ last.user.password.pw # last.args.password
    /\ \A i \in Held(last.args.email) :
          users[i].password = Hash(last.args.password, users[i].password.salt)

C16_ResetThenLogin ==
    [][/\ (/\ Ends
           /\ last'.op = "resetPassword"
           /\ last'.args.email # ""
           /\ last'.args.password # ""
           /\ last'.args.confirm # ""
           /\ last'.args.password # last'.args.confirm)
          => /\ last'.res = Throw(PasswordMismatch)
             /\ PasswordMismatch.statusCode = 400
             /\ procs[Client].pc = "idle"
             /\ users' = users
       /\ (procs[Client].pc = "rp_update" /\ Steps)
          => /\ Ends
             /\ last'.res.kind = "ok"
             /\ \A i \in Held(procs[Client].args.email) :
                   users'[i].password.pw = procs[Client].args.password
       /\ (/\ procs[Client].pc = "login_find" /\ Steps
           /\ last.op = "resetPassword"
           /\ last.res.kind = "ok"
           /\ procs[Client].args.email = last.args.email)
          => \A i \in Held(last.args.email) :
                users[i].status = "Active"
                => IF procs[Client].args.password = last.args.password
                   THEN ~Ends /\ procs'[Client].pc = "login_token"
                   ELSE Ends /\ last'.res = Throw(InvalidCredentials)
       /\ (procs[Client].pc \in {"login_token", "login_last"} /\ Steps /\ Ends)
          => last'.res.kind = "ok"]_vars

\* after a reset to another password, a login with the registered password
C16_Witness ==
    /\ calls = 2
    /\ last.op = "loginUser"
    /\ last.args.password = "secret123"
    /\ last.res = Throw(InvalidCredentials)
    /\ \A i \in Held(last.args.email) : users[i].password.pw = "other456"

(***************************************************************************)
(* C17: a resetPassword that goes through leaves the code and the expiry   *)
(* of the record cleared, and the verifyForgotPasswordOtp made next for    *)
(* that email does not succeed.                                            *)
(***************************************************************************)
C17_ResetConsumesOtp ==
    [][/\ (procs[Client].pc = "rp_update" /\ Steps)
          => \A i \in Held(procs[Client].args.email) :
                ~OtpPresent(users'[i]) /\ ~ExpiryPresent(users'[i])
       /\ (/\ procs[Client].pc \in {"vo_find", "vo_clear"} /\ Steps /\ Ends
           /\ last.op = "resetPassword"
           /\ last.res.kind = "ok"
           /\ procs[Client].args.email = last.args.email)
          => last'.res.kind = "throw"]_vars

(***************************************************************************)
(* C18: resetPassword of a registered email with matching passwords goes   *)
(* through whatever the code and expiry fields of the record hold, and     *)
(* changes the password of that record and nothing else.                   *)
(***************************************************************************)
C18_ResetWithoutOtp ==
    [][/\ (procs[Client].pc = "rp_find" /\ Steps)
          => IF Held(procs[Client].args.email) = {}
             THEN Ends /\ last'.res = Throw(ResetNotFound)
             ELSE ~Ends /\ procs'[Client].pc = "rp_update"
       /\ (procs[Client].pc = "rp_update" /\ Steps)
          => /\ Ends
             /\ last'.res.kind = "ok"
             /\ \E salt \in Salts :
                   users' = Updated(procs[Client].user._id,
                                    [password |-> [alg |-> "bcrypt", salt |-> salt,
                                                   pw |-> procs[Client].args.password]])]_vars

\* the only call of the run replaced the password: no code was ever issued
C18_Witness ==
    /\ calls = 1
    /\ mails = 0
    /\ last.op = "resetPassword"
    /\ last.res.kind = "ok"
    /\ last.wrote
    /\ \A i \in Held(last.args.email) :
          /\ users[i].forgot_password_otp = NullOtp
          /\ users[i].password.pw = last.args.password

C20_UpdateAbsentUser ==
    [][(/\ procs[Client].pc = "up_update" /\ Steps
        /\ procs[Client].args.id > 0
        /\ procs[Client].args.id \notin Ids)
       => /\ Ends
          /\ last'.res = Throw(NotFound)
          /\ users' = users]_vars

(***************************************************************************)
(* Vocabulary of the pipeline properties: the token a request presents     *)
(* (the cookie when there is one, else the word after "Bearer "), the      *)
(* response sent last, whether a response is a success or an error one.    *)
(***************************************************************************)
Presented(r) ==
    IF r.cookie # "" THEN r.cookie
    ELSE IF Len(r.header) = 3 /\ r.header[2] = " " THEN r.header[3]
    ELSE ""
Answered == http.pc = "done"
IsSuccess(response) == response.body.success = BoolV(TRUE)

C22_NoLeak ==
    (Answered /\ http.nexts # <<>>)
    => LET err == http.nexts[Len(http.nexts)]
           response == http.sent[Len(http.sent)]
       IN IF err.isOperational
          THEN /\ response.statusCode = err.statusCode
               /\ response.body.message = err.message
          ELSE /\ response.statusCode = 500
               /\ response.body.message = GenericMessage
               /\ response.body.message # err.message
               /\ "stack" \notin DOMAIN response.body
               /\ response.body.error.k # "object"

(***************************************************************************)
(* C23: every failure a service call ends with, the email sender's own     *)
(* failure aside, is an AppError that is operational, has a 4xx status     *)
(* code and status 'fail'; and the status of an AppError is 'fail'         *)
(* exactly when its status code starts with 4, 'error' otherwise.          *)
(***************************************************************************)
C23_FailuresOperational ==
    /\ (last.res.kind = "throw" /\ last.res.err # MailFailure)
       => /\ last.res.err.isOperational
          /\ last.res.err.statusCode \in 400 .. 499
          /\ last.res.err.status = "fail"
    /\ \A code \in {200, 302, 400, 401, 404, 409, 499, 500, 503} :
          AppError("m", code, TRUE).status
             = IF code \in 400 .. 499 THEN "fail" ELSE "error"

(***************************************************************************)
(* C24 as stated: every body written by a formatter or by the error        *)
(* handler has boolean success and error fields, one the negation of the   *)
(* other.                                                                  *)
(***************************************************************************)
C24_BooleanFlags ==
    last.res.kind = "ok"
    => LET body == last.res.val.body
       IN /\ body.success.k = "bool"
          /\ body.error.k = "bool"
          /\ body.success.v = ~body.error.v

\* JavaScript truthiness of a body field: an object is truthy
Truthy(x) == IF x.k = "bool" THEN x.v ELSE x.k = "object"

(***************************************************************************)
(* C24: every body written by a formatter or by the error handler has a    *)
(* boolean success field that is the negation of its error field taken as  *)
(* a truth value; error is a boolean too, except that the error handler    *)
(* under NODE_ENV 'development' puts the error object there.  Success      *)
(* responses have success true, error false and the message and data they  *)
(* were given, createdResponse with status 201; error responses have       *)
(* success false.                                                          *)
(***************************************************************************)
C24_ResponseFlags ==
    last.res.kind = "ok"
    => LET response == last.res.val
           body == response.body
           a == last.args
       IN /\ body.success.k = "bool"
          /\ body.success.v = ~Truthy(body.error)
          /\ body.error.k = "bool"
             \/ (last.op = "errorHandler" /\ a.env = "development")
          /\ last.op \in {"successResponse", "createdResponse", "paginatedResponse"}
             => /\ body.success = BoolV(TRUE)
                /\ body.error = BoolV(FALSE)
                /\ body.message = a.message
                /\ body.data = a.data
          /\ last.op = "successResponse" => response.statusCode = a.statusCode
          /\ last.op = "createdResponse" => response.statusCode = 201
          /\ last.op \in {"errorResponse", "errorHandler"}
             => /\ body.success = BoolV(FALSE)
                /\ Truthy(body.error)
          /\ (last.op = "errorHandler" /\ a.env # "development")
             => body.error = BoolV(TRUE)

\* the error handler answered an operational error in development
C24_Witness ==
    /\ last.op = "errorHandler"
    /\ last.args.env = "development"
    /\ last.args.err = NotFound
    /\ last.res.val.statusCode = 404
    /\ last.res.val.body.success = BoolV(FALSE)
    /\ last.res.val.body.error = ObjV(Json(NotFound))

(***************************************************************************)
(* C25: a call of uploadAndSetImage without a file returns without         *)
(* uploading and without calling setData; a call whose upload fails, or    *)
(* whose response has no URL at data.data.url or data.url, throws and      *)
(* does not call setData; any other call calls setData once, and the       *)
(* component state afterwards has the URL under the key named by field     *)
(* ('image' when omitted) and every other key as before.                   *)
(***************************************************************************)
C25_UploadAndSetImage ==
    [][(Ends /\ last'.op = "uploadAndSetImage")
       => LET a == last'.args
              field == IF a.field = <<>> THEN "image" ELSE a.field[1]
              urls == IF a.outcome.kind = "ok"
                      THEN {InnerUrl(a.outcome.val), OuterUrl(a.outcome.val)} \ {""}
                      ELSE {}
          IN IF a.files = <<>>
             THEN /\ last'.res.kind = "ok"
                  /\ ui'.uploads = 0
                  /\ ui'.sets = <<>>
                  /\ ui'.data = ui.data
             ELSE IF urls = {}
             THEN /\ last'.res.kind = "throw"
                  /\ ui'.uploads = 1
                  /\ ui'.sets = <<>>
                  /\ ui'.data = ui.data
             ELSE /\ last'.res.kind = "ok"
                  /\ ui'.uploads = 1
                  /\ Len(ui'.sets) = 1
                  /\ DOMAIN ui'.data = DOMAIN ui.data \cup {field}
                  /\ ui'.data[field] \in urls
                  /\ \A k \in DOMAIN ui.data \ {field} : ui'.data[k] = ui.data[k]]_vars

\* the icon was set from data.url while name and image stayed
C25_Witness ==
    /\ last.op = "uploadAndSetImage"
    /\ last.res.kind = "ok"
    /\ last.args.field = <<"icon">>
    /\ Len(ui.sets) = 1
    /\ ui.data = [name |-> "Fruit", image |-> "old.png", icon |-> "b.png"]

(***************************************************************************)
(* C26: getRedirectURL returns "/", the slug of the name, "-", the id,     *)
(* "/", then the slug of the name and the _id of the first entry of        *)
(* subCategoryData whose category list holds the id, joined by "-"; when   *)
(* no entry holds the id it still returns, and that second segment is      *)
(* "undefined-undefined".                                                  *)
(***************************************************************************)
C26_RedirectURL ==
    last.op = "getRedirectURL"
    => LET a == last.args
           subs == a.subCategoryData
           first == {i \in 1 .. Len(subs) :
                       /\ HasCategory(subs[i], a.id)
                       /\ \A j \in 1 .. (i - 1) : ~HasCategory(subs[j], a.id)}
           head == <<"/">> \o valideURLConvert(a.name) \o <<"-">> \o a.id \o <<"/">>
       IN /\ last.res.kind = "ok"
          /\ \A i \in first :
                last.res.val = head \o valideURLConvert(subs[i].name) \o <<"-">>
                               \o subs[i]._id
          /\ first = {}
             => last.res.val = head \o UndefinedText \o <<"-">> \o UndefinedText

\* two entries hold the id: the first one names the second segment
C26_Witness ==
    /\ last.op = "getRedirectURL"
    /\ last.args.id = <<"1">>
    /\ Len(last.args.subCategoryData) = 2
    /\ HasCategory(last.args.subCategoryData[1], <<"1">>)
    /\ HasCategory(last.args.subCategoryData[2], <<"1">>)
    /\ last.args.subCategoryData[1] # last.args.subCategoryData[2]
    /\ last.res.val = <<"/", "f", "r", "e", "s", "h", "-", "f", "o", "o", "d", "-", "1", "/", "r", "o", "o", "t", "-", "v", "e", "g", "-", "s", "2">>

(***************************************************************************)
(* C27: the email of registerUser and of forgotPassword is sent after the  *)
(* write.  Whether it is delivered or fails, the step leaves the           *)
(* collection as the write made it: the new record, or the code and the    *)
(* expiry of this call; a failed send ends the call in failure.  The       *)
(* registerUser made next for the same email ends with 'Email already      *)
(* registered'.                                                            *)
(***************************************************************************)
C27_WriteBeforeMail ==
    [][/\ (procs[Client].pc = "reg_mail" /\ Steps)
          => /\ Ends
             /\ users' = users
             /\ procs[Client].wrote
             /\ \E i \in Held(procs[Client].args.email) :
                   users'[i]._id = procs[Client].user._id
             /\ mails' = mails => last'.res = Throw(MailFailure)
       /\ (procs[Client].pc = "fp_mail" /\ Steps)
          => /\ Ends
             /\ users' = users
             /\ \A i \in Held(procs[Client].args.email) :
                   /\ users'[i].forgot_password_otp
                         = ToStr(procs[Client].upd["forgot_password_otp"].v)
                   /\ users'[i].forgot_password_expiry
                         = DateV(procs[Client].upd["forgot_password_expiry"].v)
             /\ mails' = mails => last'.res = Throw(MailFailure)
       /\ (/\ procs[Client].pc = "reg_find" /\ Steps
           /\ last.op = "registerUser"
           /\ last.res = Throw(MailFailure)
           /\ procs[Client].args.email = last.args.email)
          => /\ Ends
             /\ last'.res = Throw(Conflict)
             /\ users' = users]_vars

\* the email of the first registration failed; its retry met the record
C27_Witness ==
    /\ calls = 2
    /\ mails = 0
    /\ Len(users) = 1
    /\ last.op = "registerUser"
    /\ last.res = Throw(Conflict)
    /\ users[1].email = last.args.email

(***************************************************************************)
(* C28: the clearing write of a successful verifyForgotPasswordOtp leaves  *)
(* a code and expiry stored since the verification read the record as      *)
(* they are: when the record holds another code or expiry than the one     *)
(* the verification read, both are still stored after the write.           *)
(***************************************************************************)
C28_ClearsOnlyVerified ==
    [][\A p \in Procs :
          (procs[p].pc = "vo_clear" /\ StepsOf(p))
          => \A i \in Held(procs[p].args.email) :
                (\/ users[i].forgot_password_otp # procs[p].user.forgot_password_otp
                 \/ users[i].forgot_password_expiry
                       # procs[p].user.forgot_password_expiry)
                => /\ users'[i].forgot_password_otp = users[i].forgot_password_otp
                   /\ users'[i].forgot_password_expiry
                         = users[i].forgot_password_expiry]_vars

(***************************************************************************)
(* C29: a request handled by a controller wrapped in catchAsync gets       *)
(* exactly one outcome.  The controller either answers with a success      *)
(* response and next is not called, or it rejects and next is called once  *)
(* with its error (getProfile of an id no record has: 'User not found'),   *)
(* after which the error handler sends the one response, an error          *)
(* response for that error.  No request has two responses, and a request   *)
(* that reached its controller is answered.                                *)
(***************************************************************************)
C29_OneOutcome ==
    /\ [](/\ Len(http.sent) <= 1
          /\ Len(http.nexts) <= 1
          /\ Answered => Len(http.sent) = 1
          /\ (http.sent # <<>> /\ IsSuccess(http.sent[1])) => http.nexts = <<>>
          /\ (Answered /\ http.nexts # <<>>)
             => /\ http.sent[1] = errorHandler(http.nexts[1], http.env)
                /\ ~IsSuccess(http.sent[1]))
    /\ [][(http.pc = "handler" /\ http' # http)
          => /\ http'.ran = 1
             /\ \/ /\ http'.pc = "done"
                   /\ http'.nexts = <<>>
                   /\ Len(http'.sent) = 1
                   /\ IsSuccess(http'.sent[1])
                \/ /\ http'.pc = "error"
                   /\ Len(http'.nexts) = 1
                   /\ http'.sent = <<>>
             /\ http.route = "profile"
                => IF http.userId \in Ids
                   THEN http'.pc = "done"
                   ELSE http'.nexts = <<NotFound>>]_vars
    /\ (http.pc = "handler") ~> Answered

\* the rejection of getProfile was answered by the error handler, once
C29_Witness ==
    /\ Answered
    /\ http.route = "profile"
    /\ http.ran = 1
    /\ http.nexts = <<NotFound>>
    /\ Len(http.sent) = 1
    /\ http.sent[1].statusCode = 404

====
